---- MODULE Spec2Model ----
(***************************************************************************)
(* A model of WhoopClient (src/whoop.py): the OAuth2 session life cycle    *)
(* (construction, authenticate, close, context manager), the single        *)
(* request helper, the cursor pagination loop and date range formatting.   *)
(*                                                                         *)
(* Python values are represented as follows.                               *)
(*   - None is the string None; a key that is missing from a dict is the   *)
(*     string Absent.                                                      *)
(*   - A date string "YYYY-MM-DD" is the tuple <<y, m, d>>; a start_date   *)
(*     or end_date argument of None is the empty tuple NoDate.             *)
(*   - A datetime is a record [y, m, d, hh, mm, ss, us].                   *)
(*   - A formatted timestamp string is a record of the fields that are     *)
(*     printed: [y, m, d, hh, mm, ss, frac, suffix], frac = NoFrac when    *)
(*     no fractional part is printed.                                      *)
(*   - The token payload {access_token, user: {id}} is [has_id, id].       *)
(***************************************************************************)
EXTENDS Integers, Sequences, FiniteSets, TLC

VARIABLES
    pc,             \* "new" | "idle" | "paging" | "ctor_failed"
    exited,         \* "no" | "normal" | "exception": how a with block was left
    transport,      \* "none" | "open" | "released": self.session's transport
    token,          \* self.session.token: [held, has_id, id]
    user_id,        \* self.user_id
    params,         \* the params dict of the collection call in progress
    response_data,  \* the list accumulated by the collection call in progress
    result,         \* outcome of the last operation
    reqLog,         \* history: the params of every request of the last call
    served,         \* history: every response served to the last call
    pagedBefore,    \* history: an earlier collection call has sent a nextToken
    server,         \* "ending" | "cycle": how the collection endpoint pages
    call            \* history: the inputs and pre-state of the last operation

vars == <<pc, exited, transport, token, user_id, params, response_data,
          result, reqLog, served, pagedBefore, server, call>>

----------------------------------------------------------------------------
(* Bounds and input sets *)

MaxPages == 3
MaxRequests == 5

None == "<None>"
Absent == "<absent>"
NoDate == <<>>
NoFrac == 0 - 1

Cursors == {"t1", "t2"}
PageRecords == {<<>>, <<"b", "a">>}
FailureStatuses == {401, 500}
UserIds == {7, 42}
StartDates == {<<2024, 1, 1>>, <<2024, 1, 10>>}
EndDates == {<<2024, 1, 1>>}
Todays == {<<2024, 1, 3>>}

----------------------------------------------------------------------------
(* Python built-ins used by the client *)

Truthy(v) == v # None /\ v # ""

Digit(n) == <<"0", "1", "2", "3", "4", "5", "6", "7", "8", "9">>[n + 1]

RECURSIVE str(_)
str(n) == IF n < 10 THEN Digit(n) ELSE str(n \div 10) \o Digit(n % 10)

IsLeap(y) == (y % 4 = 0 /\ y % 100 # 0) \/ y % 400 = 0

DaysInMonth(y, m) ==
    IF m = 2 THEN (IF IsLeap(y) THEN 29 ELSE 28)
    ELSE IF m \in {4, 6, 9, 11} THEN 30 ELSE 31

PrevDay(dt) ==
    IF dt.d > 1 THEN [dt EXCEPT !.d = dt.d - 1]
    ELSE IF dt.m > 1 THEN [dt EXCEPT !.m = dt.m - 1, !.d = DaysInMonth(dt.y, dt.m - 1)]
    ELSE [dt EXCEPT !.y = dt.y - 1, !.m = 12, !.d = 31]

NextDay(dt) ==
    IF dt.d < DaysInMonth(dt.y, dt.m) THEN [dt EXCEPT !.d = dt.d + 1]
    ELSE IF dt.m < 12 THEN [dt EXCEPT !.m = dt.m + 1, !.d = 1]
    ELSE [dt EXCEPT !.y = dt.y + 1, !.m = 1, !.d = 1]

RECURSIVE MinusDays(_, _)
MinusDays(dt, n) == IF n = 0 THEN dt ELSE MinusDays(PrevDay(dt), n - 1)

time_min == [hh |-> 0, mm |-> 0, ss |-> 0, us |-> 0]
time_max == [hh |-> 23, mm |-> 59, ss |-> 59, us |-> 999999]

fromisoformat(s) ==
    [y |-> s[1], m |-> s[2], d |-> s[3], hh |-> 0, mm |-> 0, ss |-> 0, us |-> 0]

combine(dt, t) ==
    [y |-> dt.y, m |-> dt.m, d |-> dt.d, hh |-> t.hh, mm |-> t.mm, ss |-> t.ss, us |-> t.us]

DateOf(dt) == <<dt.y, dt.m, dt.d>>

DtKey(dt) == <<dt.y, dt.m, dt.d, dt.hh, dt.mm, dt.ss, dt.us>>

RECURSIVE LexGreater(_, _)
LexGreater(a, b) ==
    IF a = <<>> THEN FALSE
    ELSE IF Head(a) # Head(b) THEN Head(a) > Head(b)
    ELSE LexGreater(Tail(a), Tail(b))

DtGreater(a, b) == LexGreater(DtKey(a), DtKey(b))

isoformat(dt, timespec) ==
    [y |-> dt.y, m |-> dt.m, d |-> dt.d, hh |-> dt.hh, mm |-> dt.mm, ss |-> dt.ss,
     frac |-> IF timespec = "auto" /\ dt.us # 0 THEN dt.us ELSE NoFrac,
     suffix |-> ""]

AppendZ(iso) == [iso EXCEPT !.suffix = iso.suffix \o "Z"]

\* datetime.today(): some moment of the day D
today(D) == [y |-> D[1], m |-> D[2], d |-> D[3], hh |-> 12, mm |-> 34, ss |-> 56, us |-> 789]

----------------------------------------------------------------------------
(* Values of the state *)

NoToken == [held |-> FALSE, has_id |-> FALSE, id |-> 0]
NoIso == [y |-> 0, m |-> 0, d |-> 0, hh |-> 0, mm |-> 0, ss |-> 0, frac |-> NoFrac, suffix |-> ""]
NoParams == [start |-> NoIso, end |-> NoIso, limit |-> 0, nextToken |-> Absent]
NoAuthResponse == [rejected |-> FALSE, has_id |-> FALSE, id |-> 0]
NoResult == [op |-> "none", kind |-> "none", err |-> "", status |-> 0, value |-> <<>>]
NoCall ==
    [resp |-> NoAuthResponse, pre_held |-> FALSE, pre_user_id |-> "",
     start_date |-> NoDate, end_date |-> NoDate, now_end |-> NoDate, now_start |-> NoDate]

Ok(op, value) == [op |-> op, kind |-> "ok", err |-> "", status |-> 0, value |-> value]
Raised(op, err, status) == [op |-> op, kind |-> "error", err |-> err, status |-> status, value |-> <<>>]

\* What the token endpoint may answer: a rejection, a payload with user.id,
\* or a payload without it.
AuthResponses ==
    {[rejected |-> TRUE, has_id |-> FALSE, id |-> 0],
     [rejected |-> FALSE, has_id |-> FALSE, id |-> 0]}
    \cup {[rejected |-> FALSE, has_id |-> TRUE, id |-> i] : i \in UserIds}

\* What a resource endpoint may answer.
Failures == {[status |-> s, records |-> <<>>, next_token |-> Absent] : s \in FailureStatuses}
LastPages == {[status |-> 200, records |-> r, next_token |-> t] :
                 r \in PageRecords, t \in {None, "", Absent}}
MorePages == {[status |-> 200, records |-> r, next_token |-> t] :
                 r \in PageRecords, t \in Cursors}

Documents == {[status |-> 200, records |-> r, next_token |-> Absent] : r \in PageRecords}

\* The k-th answer of a call; the last one the bound allows ends the paging.
Responses(k) == IF k < MaxPages THEN Failures \cup LastPages \cup MorePages
                ELSE Failures \cup LastPages

----------------------------------------------------------------------------
(* The methods of WhoopClient *)

\* self.session.fetch_token(...): raises when the endpoint rejects the
\* credentials, otherwise stores the payload as the session's token
fetch_token(tok, r) ==
    IF r.rejected THEN [raised |-> TRUE, token |-> tok]
    ELSE [raised |-> FALSE, token |-> [held |-> TRUE, has_id |-> r.has_id, id |-> r.id]]

\* Mutant: the id is looked up under a key the payload does not have.
TokenUserId_WrongKey(tok) == ""

\* str(self.session.token.get("user", {}).get("id", ""))
TokenUserId(tok) == IF tok.has_id THEN str(tok.id) ELSE ""

\* Mutant: the user id is overwritten at every authentication.
ResolveUserId_Always(uid, tok) == TokenUserId(tok)

\* if not self.user_id: self.user_id = ...
ResolveUserId(uid, tok) == IF uid = "" THEN TokenUserId(tok) ELSE uid

authenticate(tok, uid, r) ==
    LET f == fetch_token(tok, r) IN
    IF f.raised THEN [raised |-> TRUE, token |-> tok, user_id |-> uid]
    ELSE [raised |-> FALSE, token |-> f.token, user_id |-> ResolveUserId(uid, f.token)]

is_authenticated == token.held

\* Mutant: the status of the response is not checked.
_make_request_NoRaise(resp) == [raised |-> FALSE, err |-> "", status |-> 0, body |-> resp]

\* response.raise_for_status(); return response.json()
_make_request(resp) ==
    IF resp.status >= 400
    THEN [raised |-> TRUE, err |-> "HTTPError", status |-> resp.status, body |-> resp]
    ELSE [raised |-> FALSE, err |-> "", status |-> 0, body |-> resp]

\* Mutant: records already accumulated are skipped.
Accumulate_Dedup(data, records) ==
    data \o SelectSeq(records, LAMBDA x : \A i \in 1..Len(data) : data[i] # x)

\* response_data += response["records"]
Accumulate(data, records) == data \o records

\* Mutant: a cursor already in the params is kept (params.setdefault).
SetNextToken_KeepFirst(p, next_token) ==
    IF p.nextToken = Absent THEN [p EXCEPT !.nextToken = next_token] ELSE p

\* params["nextToken"] = next_token
SetNextToken(p, next_token) == [p EXCEPT !.nextToken = next_token]

\* Mutant: a guard ends the loop after the second page.
PageIteration_TwoPages(p, data, resp) ==
    LET r == _make_request(resp)
        acc == Accumulate(data, r.body.records)
    IN  IF r.raised
        THEN [next |-> "raise", err |-> r.err, status |-> r.status, params |-> p, data |-> data]
        ELSE IF r.body.next_token = Absent
        THEN [next |-> "raise", err |-> "KeyError", status |-> 0, params |-> p, data |-> acc]
        ELSE IF Truthy(r.body.next_token) /\ p.nextToken = Absent
        THEN [next |-> "loop", err |-> "", status |-> 0,
              params |-> SetNextToken(p, r.body.next_token), data |-> acc]
        ELSE [next |-> "return", err |-> "", status |-> 0, params |-> p, data |-> acc]

\* One iteration of the while loop of _make_paginated_request, the endpoint
\* answering resp.
PageIteration(p, data, resp) ==
    LET r == _make_request(resp)
        acc == Accumulate(data, r.body.records)
    IN  IF r.raised
        THEN [next |-> "raise", err |-> r.err, status |-> r.status, params |-> p, data |-> data]
        ELSE IF r.body.next_token = Absent
        THEN [next |-> "raise", err |-> "KeyError", status |-> 0, params |-> p, data |-> acc]
        ELSE IF Truthy(r.body.next_token)
        THEN [next |-> "loop", err |-> "", status |-> 0,
              params |-> SetNextToken(p, r.body.next_token), data |-> acc]
        ELSE [next |-> "return", err |-> "", status |-> 0, params |-> p, data |-> acc]

\* Mutant: a range within one day is rejected too.
StartAfterEnd_SameDay(start, end) == DtGreater(start, end) \/ DateOf(start) = DateOf(end)

\* if start > end
StartAfterEnd(start, end) == DtGreater(start, end)

\* now_end and now_start are the two reads of datetime.today()
_format_dates(start_date, end_date, now_end, now_start) ==
    LET end == combine(IF end_date # NoDate THEN fromisoformat(end_date) ELSE today(now_end),
                       time_max)
        start == combine(IF start_date # NoDate THEN fromisoformat(start_date)
                         ELSE MinusDays(today(now_start), 6),
                         time_min)
    IN  IF StartAfterEnd(start, end)
        THEN [raised |-> TRUE, start |-> NoIso, end |-> NoIso]
        ELSE [raised |-> FALSE,
              start |-> AppendZ(isoformat(start, "auto")),
              end |-> AppendZ(isoformat(end, "seconds"))]

\* params={"start": start, "end": end, "limit": 25}
CollectionParams(start, end) == [start |-> start, end |-> end, limit |-> 25, nextToken |-> Absent]

----------------------------------------------------------------------------
(* The state machine *)

NewClient ==
    /\ pc = "new"
    /\ exited = "no"
    /\ transport = "none"
    /\ token = NoToken
    /\ user_id = ""
    /\ params = NoParams
    /\ response_data = <<>>
    /\ result = NoResult
    /\ reqLog = <<>>
    /\ served = <<>>
    /\ pagedBefore = FALSE
    /\ call = NoCall

\* The collection endpoint ends every listing within MaxPages pages.
Init == NewClient /\ server = "ending"

\* The client is used between its construction and the release of its
\* transport.
InScope == pc = "idle" /\ transport = "open" /\ exited = "no"

NoPaging == /\ params' = NoParams
            /\ response_data' = <<>>
            /\ reqLog' = <<>>
            /\ served' = <<>>

AuthCall(r) == [NoCall EXCEPT !.resp = r, !.pre_held = token.held, !.pre_user_id = user_id]

\* WhoopClient(username, password, authenticate=auth), alone or as the
\* expression of a with statement (__enter__ returns the client unchanged);
\* r is the token endpoint's answer when auth is set.
__init__(auth, r) ==
    /\ pc = "new"
    /\ transport' = "open"
    /\ exited' = exited
    /\ NoPaging
    /\ pagedBefore' = pagedBefore
    /\ server' = server
    /\ IF auth
       THEN LET a == authenticate(NoToken, "", r) IN
            /\ token' = a.token
            /\ user_id' = a.user_id
            /\ pc' = IF a.raised THEN "ctor_failed" ELSE "idle"
            /\ result' = IF a.raised THEN Raised("__init__", "OAuthError", 0) ELSE Ok("__init__", <<>>)
            /\ call' = [NoCall EXCEPT !.resp = r]
       ELSE /\ token' = NoToken
            /\ user_id' = ""
            /\ pc' = "idle"
            /\ result' = NoResult
            /\ call' = NoCall

\* client.authenticate()
Authenticate(r) ==
    /\ InScope
    /\ LET a == authenticate(token, user_id, r) IN
       /\ token' = a.token
       /\ user_id' = a.user_id
       /\ result' = IF a.raised THEN Raised("authenticate", "OAuthError", 0)
                    ELSE Ok("authenticate", <<>>)
    /\ call' = AuthCall(r)
    /\ NoPaging
    /\ UNCHANGED <<pc, exited, transport, pagedBefore, server>>

\* get_profile, get_body_measurement, get_cycle_by_id, get_recovery_for_cycle,
\* get_sleep_by_id, get_workout_by_id: one request, the decoded body returned
GetSingle(resp) ==
    /\ InScope
    /\ LET r == _make_request(resp) IN
       result' = IF r.raised THEN Raised("single", r.err, r.status)
                 ELSE Ok("single", r.body.records)
    /\ reqLog' = <<NoParams>>
    /\ served' = <<resp>>
    /\ params' = NoParams
    /\ response_data' = <<>>
    /\ call' = NoCall
    /\ UNCHANGED <<pc, exited, transport, token, user_id, pagedBefore, server>>

\* get_cycle_collection, get_recovery_collection, get_sleep_collection,
\* get_workout_collection up to the first iteration of the paging loop
GetCollection(start_date, end_date, now_end, now_start) ==
    /\ InScope
    /\ LET f == _format_dates(start_date, end_date, now_end, now_start) IN
       IF f.raised
       THEN /\ result' = Raised("collection", "ValueError", 0)
            /\ params' = NoParams
            /\ pc' = pc
       ELSE /\ result' = [NoResult EXCEPT !.op = "collection", !.kind = "pending"]
            /\ params' = CollectionParams(f.start, f.end)
            /\ pc' = "paging"
    /\ response_data' = <<>>
    /\ reqLog' = <<>>
    /\ served' = <<>>
    /\ call' = [NoCall EXCEPT !.start_date = start_date, !.end_date = end_date,
                              !.now_end = IF end_date = NoDate THEN now_end ELSE NoDate,
                              !.now_start = IF start_date = NoDate THEN now_start ELSE NoDate]
    /\ UNCHANGED <<exited, transport, token, user_id, pagedBefore, server>>

\* One iteration of the loop of _make_paginated_request
PageStep(resp) ==
    /\ pc = "paging"
    /\ LET it == PageIteration(params, response_data, resp) IN
       /\ reqLog' = Append(reqLog, params)
       /\ served' = Append(served, resp)
       /\ pagedBefore' = (pagedBefore \/ (it.next # "loop" /\ Len(reqLog) >= 1))
       /\ IF it.next = "loop"
          THEN /\ pc' = "paging"
               /\ params' = it.params
               /\ response_data' = it.data
               /\ result' = result
          ELSE /\ pc' = "idle"
               /\ params' = NoParams
               /\ response_data' = <<>>
               /\ result' = IF it.next = "return" THEN Ok("collection", it.data)
                            ELSE Raised("collection", it.err, it.status)
    /\ UNCHANGED <<exited, transport, token, user_id, server, call>>

\* self.session.close()
session_close(t) == "released"

\* client.close(), also on a client that is closed already
Close ==
    /\ pc = "idle"
    /\ transport' = session_close(transport)
    /\ result' = Ok("close", <<>>)
    /\ UNCHANGED <<pc, exited, token, user_id, params, response_data,
                   reqLog, served, pagedBefore, server, call>>

\* __exit__ at the end of the with block: the body completed, or an operation
\* of the body raised and the exception leaves the block
__exit__ ==
    /\ pc = "idle"
    /\ exited = "no"
    /\ exited' = IF result.kind = "error" THEN "exception" ELSE "normal"
    /\ transport' = session_close(transport)
    /\ UNCHANGED <<pc, token, user_id, params, response_data, result,
                   reqLog, served, pagedBefore, server, call>>

\* The day of the second read of the clock: the day of the first read, or
\* the next day when midnight passes between the two reads.
SecondRead(D, midnight) == IF midnight THEN DateOf(NextDay(today(D))) ELSE D

Next ==
    \/ \E auth \in BOOLEAN, r \in AuthResponses : __init__(auth, r)
    \/ \E r \in AuthResponses : Authenticate(r)
    \/ \E resp \in Failures \cup Documents : GetSingle(resp)
    \/ \E sd \in StartDates \cup {NoDate}, ed \in EndDates \cup {NoDate}, D \in Todays,
          midnight \in BOOLEAN :
          GetCollection(sd, ed, D, SecondRead(D, midnight))
    \/ \E resp \in Responses(Len(reqLog) + 1) : PageStep(resp)
    \/ Close
    \/ __exit__

Spec == Init /\ [][Next]_vars

----------------------------------------------------------------------------
(* The client against an endpoint that may never end a listing *)

\* The page of an endpoint whose cursors form the cycle t1 -> t2 -> t1: the
\* answer to a request carrying nextToken, every page with status 200
CyclePage(nextToken) ==
    [status |-> 200, records |-> <<"b", "a">>,
     next_token |-> IF nextToken = "t1" THEN "t2" ELSE "t1"]

\* The endpoint either ends every listing or cycles, for the whole run.
InitAnyServer == NewClient /\ server \in {"ending", "cycle"}

\* An iteration of the paging loop against the ending endpoint
EndingPageStep ==
    /\ server = "ending"
    /\ \E resp \in Responses(Len(reqLog) + 1) : PageStep(resp)

\* An iteration of the paging loop against the cycling endpoint; the run is
\* followed for MaxRequests requests.
CyclePageStep ==
    /\ server = "cycle"
    /\ Len(reqLog) < MaxRequests
    /\ PageStep(CyclePage(params.nextToken))

\* Outside the paging loop the client does what it does in Next.
NextAnyServer ==
    \/ pc # "paging" /\ Next
    \/ EndingPageStep
    \/ CyclePageStep

\* The loop is synchronous code: an iteration that can run does run.
FairSpec ==
    /\ InitAnyServer
    /\ [][NextAnyServer]_vars
    /\ WF_vars(EndingPageStep)
    /\ WF_vars(CyclePageStep)

----------------------------------------------------------------------------
(* Notions the properties are stated with *)

Last(q) == q[Len(q)]

\* records(P1) ++ records(P2) ++ ... ++ records(Pn)
RECURSIVE Flatten(_)
Flatten(pages) == IF pages = <<>> THEN <<>> ELSE Head(pages).records \o Flatten(Tail(pages))

\* A page whose cursor asks for another request
HasCursor(resp) == resp.status = 200 /\ resp.next_token \in Cursors

\* A page that ends the paging with a null or empty cursor
EndsPaging(resp) == resp.status = 200 /\ resp.next_token \in {None, ""}

CollectionDone == result.op = "collection" /\ pc = "idle" /\ served # <<>>

----------------------------------------------------------------------------
(* C1: when the endpoint serves pages P1..Pn, every cursor non-empty but the
   last, which is null or empty, the collection call returns exactly
   records(P1) ++ ... ++ records(Pn): nothing dropped, duplicated, reordered
   or deduplicated. *)
C1_ReturnsAllRecordsInOrder ==
    (CollectionDone /\ EndsPaging(Last(served)))
        => (result.kind = "ok" /\ result.value = Flatten(served))

\* three pages, a record repeated across pages, records out of sorted order
C1_Witness ==
    /\ CollectionDone /\ EndsPaging(Last(served))
    /\ Len(served) = 3
    /\ result.value = <<"b", "a", "b", "a">>

----------------------------------------------------------------------------
\* The parameters a collection call starts from: the formatted range and the
\* page size
InitialParams ==
    LET f == _format_dates(call.start_date, call.end_date, call.now_end, call.now_start)
    IN  [start |-> f.start, end |-> f.end, limit |-> 25, nextToken |-> Absent]

(* C2: in every collection call, also one made after earlier calls of the
   same client, the first request carries the initial parameters and no
   nextToken; request k+1 is issued exactly when response k carries a
   non-empty next_token, and then carries that cursor as nextToken, in place
   of any earlier one, with the initial parameters unchanged; so an endpoint
   whose n-th page is the first without a cursor receives n requests. *)
C2_CursorProtocol ==
    (result.op = "collection" /\ reqLog # <<>>) =>
        /\ Len(served) = Len(reqLog)
        /\ reqLog[1] = InitialParams
        /\ \A k \in 1..Len(reqLog) - 1 :
              /\ HasCursor(served[k])
              /\ reqLog[k + 1] = [InitialParams EXCEPT !.nextToken = served[k].next_token]
        /\ HasCursor(Last(served)) <=> pc = "paging"
        /\ (pc = "paging" => params = [InitialParams EXCEPT !.nextToken = Last(served).next_token])

\* a later call of a client that has paged before: three requests, the third
\* carrying the second cursor and not the first
C2_Witness ==
    /\ pagedBefore
    /\ CollectionDone /\ EndsPaging(Last(served))
    /\ Len(reqLog) = 3
    /\ reqLog[1].nextToken = Absent
    /\ served[1].next_token = "t1" /\ reqLog[2].nextToken = "t1"
    /\ served[2].next_token = "t2" /\ reqLog[3].nextToken = "t2"

----------------------------------------------------------------------------
(* C3: a page whose body has no next_token field is the last page: the
   collection call ends normally and returns the accumulated records. *)
C3_AbsentCursorIsLastPage ==
    (CollectionDone /\ Last(served).status = 200 /\ Last(served).next_token = Absent)
        => (result.kind = "ok" /\ result.value = Flatten(served))

----------------------------------------------------------------------------
\* The last operation was an authentication, the constructor's or an explicit
\* one, that succeeded on a token response carrying user.id
AuthSucceeded ==
    /\ result.op \in {"__init__", "authenticate"}
    /\ result.kind = "ok"
    /\ call.resp.has_id

(* C4 as stated: after authenticate succeeds on a token response that
   carries user.id, explicitly or from the constructor, is_authenticated is
   true and user_id is the non-empty string form of that user.id. *)
C4_UserIdMatchesTokenPayload ==
    AuthSucceeded =>
        (is_authenticated /\ user_id # "" /\ user_id = str(call.resp.id))

(* C4 as amended: after authenticate succeeds on a token response that
   carries user.id, is_authenticated is true; user_id is the non-empty string
   form of that user.id when it was unset before the call, and keeps its
   earlier value when it was set. *)
C4_UserIdResolvedWhenUnset ==
    AuthSucceeded =>
        /\ is_authenticated
        /\ IF call.pre_user_id = ""
           THEN user_id # "" /\ user_id = str(call.resp.id)
           ELSE user_id = call.pre_user_id

\* an explicit authenticate resolves the user id of a client that had none
C4_Witness ==
    /\ AuthSucceeded
    /\ result.op = "authenticate"
    /\ call.pre_user_id = ""
    /\ call.resp.id = 42
    /\ user_id = "42"

----------------------------------------------------------------------------
InvalidAuthResponse(r) == r.rejected \/ ~r.has_id

(* C5: when the token endpoint rejects the credentials or answers with a
   malformed payload (one without user.id), authenticate fails, and on a
   client that held no token before the call no token is stored and user_id
   stays unset. *)
C5_InvalidCredentialsFail ==
    (/\ result.op \in {"__init__", "authenticate"}
     /\ InvalidAuthResponse(call.resp)
     /\ ~call.pre_held)
        => (result.kind = "error" /\ ~is_authenticated /\ user_id = "")

----------------------------------------------------------------------------
(* C6: once user_id is non-empty no operation changes it, in particular not
   a later authenticate whose token payload carries another user.id or
   none. *)
C6_UserIdNeverChanges == [][user_id # "" => user_id' = user_id]_vars

\* a later authenticate has stored a token for another user.id
C6_Witness ==
    /\ AuthSucceeded
    /\ result.op = "authenticate"
    /\ call.pre_user_id = "7"
    /\ token.id = 42
    /\ user_id = "7"

----------------------------------------------------------------------------
(* C7: when a request of a single-resource call or of a collection call is
   answered with a failure status, the call ends with an HTTP error carrying
   that status and issues no further request: no retry, no further page, and
   no partial list returned. *)
C7_FailureStatusEndsCall ==
    (result.op \in {"single", "collection"} /\ served # <<>>) =>
        /\ \A k \in 1..Len(served) - 1 : served[k].status < 400
        /\ Last(served).status >= 400 =>
              /\ pc = "idle"
              /\ Len(reqLog) = Len(served)
              /\ result.kind = "error"
              /\ result.err = "HTTPError"
              /\ result.status = Last(served).status
              /\ result.value = <<>>

\* the third page of a collection call fails after records were accumulated
C7_Witness ==
    /\ CollectionDone
    /\ Len(served) = 3
    /\ Flatten(served) # <<>>
    /\ Last(served).status = 401
    /\ result.status = 401

----------------------------------------------------------------------------
\* The days the arguments of the last collection call resolve to
ResolvedStartDay ==
    IF call.start_date # NoDate THEN call.start_date
    ELSE DateOf(MinusDays(today(call.now_start), 6))

ResolvedEndDay == IF call.end_date # NoDate THEN call.end_date ELSE call.now_end

IsoKey(iso) == <<iso.y, iso.m, iso.d, iso.hh, iso.mm, iso.ss>>

(* C8: _format_dates raises ValueError exactly when the resolved start (the
   start date at 00:00:00) is after the resolved end (the end date at
   23:59:59.999999): it raises for every start date later than the end date,
   not for equal dates, every range it returns and every start/end pair a
   collection call sends has start <= end, and a call that raises sends no
   request. *)
C8_RangeErrorIffStartAfterEnd ==
    result.op = "collection" =>
        /\ result.err = "ValueError" <=>
              LexGreater(ResolvedStartDay \o <<0, 0, 0, 0>>,
                         ResolvedEndDay \o <<23, 59, 59, 999999>>)
        /\ LexGreater(ResolvedStartDay, ResolvedEndDay) => result.err = "ValueError"
        /\ ResolvedStartDay = ResolvedEndDay => result.err # "ValueError"
        /\ result.err = "ValueError" => (pc = "idle" /\ reqLog = <<>> /\ served = <<>>)
        /\ pc = "paging" => ~LexGreater(IsoKey(params.start), IsoKey(params.end))
        /\ \A k \in 1..Len(reqLog) :
              ~LexGreater(IsoKey(reqLog[k].start), IsoKey(reqLog[k].end))

\* the call get_..._collection("2024-01-10", "2024-01-01") has raised
C8_Witness ==
    /\ result.op = "collection"
    /\ call.start_date = <<2024, 1, 10>>
    /\ call.end_date = <<2024, 1, 1>>
    /\ result.err = "ValueError"
    /\ pc = "idle"

----------------------------------------------------------------------------
(* C9: _format_dates(None, None) returns a range whose start day is exactly
   6 days before its end day, start at 00:00:00 and end at 23:59:59, at
   whatever moment it is called, also when midnight passes between the two
   reads of the clock. *)
C9_DefaultWindowIsSixDays ==
    (/\ result.op = "collection"
     /\ pc = "paging"
     /\ call.start_date = NoDate
     /\ call.end_date = NoDate)
        => /\ <<params.start.y, params.start.m, params.start.d>>
                = DateOf(MinusDays(fromisoformat(<<params.end.y, params.end.m, params.end.d>>), 6))
           /\ <<params.start.hh, params.start.mm, params.start.ss>> = <<0, 0, 0>>
           /\ <<params.end.hh, params.end.mm, params.end.ss>> = <<23, 59, 59>>

----------------------------------------------------------------------------
(* C10: the transport of a client is released on every way out of its use:
   after a with block completes, after an exception leaves a with block,
   after close(), and when the constructor fails because its authenticate
   raises; close() on a released transport leaves it released. *)
C10_TransportReleasedOnEveryExit ==
    (exited # "no" \/ result.op = "close" \/ pc = "ctor_failed")
        => transport = "released"

----------------------------------------------------------------------------
\* A collection call against the cycling endpoint is in its paging loop
CyclePaging == server = "cycle" /\ pc = "paging"

(* C11: a collection call ends, by returning or raising, whenever the
   endpoint answers with an empty or absent cursor or a failure after
   finitely many pages, however many; against an endpoint that answers
   every request with status 200 and a non-empty cursor (the cycle
   t1 -> t2 -> t1) the call never ends and goes on issuing requests: no
   guard stops it. *)
C11_EndsIffCursorsEnd ==
    /\ (server = "ending" /\ pc = "paging") ~> (pc = "idle")
    /\ [][CyclePaging => (pc' = "paging" /\ Len(reqLog') = Len(reqLog) + 1)]_vars
    /\ CyclePaging ~> (CyclePaging /\ Len(reqLog) = MaxRequests)

\* the call has followed the cycle for more requests than the ending
\* endpoint serves pages, and has not returned
C11_Witness ==
    /\ CyclePaging
    /\ Len(reqLog) > MaxPages + 1
    /\ reqLog[2].nextToken = "t1"
    /\ reqLog[3].nextToken = "t2"
    /\ reqLog[4].nextToken = "t1"
    /\ result.kind = "pending"
    /\ Len(response_data) = 2 * Len(reqLog)

====
